---- MODULE Spec2Model ----
(***************************************************************************)
(* Debate orchestration engine of stockarena: the LangGraph debate graph   *)
(* (fetch_data -> summary -> bull -> bear -> loop | moderator), the        *)
(* persona result parsers, and the three entry points that drive one run   *)
(* (POST /analyze, POST /analyze/stream, WebSocket /ws/debate); the news    *)
(* search of the fetch stage; and the bulk-quote read path with its cache. *)
(***************************************************************************)
EXTENDS Integers, Sequences, FiniteSets, TLC

\* ------------------------------------------------------------------ bounds
\* longest raw completion text, in characters of the alphabet Chars
MaxTextLen == 2
\* longest "arguments" array of a completion's JSON object
MaxArgs == 1
\* long completions are up to this many characters longer than SummaryChars
MaxOverflow == 1
\* a client requests max_rounds from MinRounds - ReqBelow to MaxRounds + ReqAbove
ReqBelow == 1
ReqAbove == 1

\* raw results of one news search
MaxNews == 2
\* news items are dated from MAX_NEWS_AGE_DAYS - AgeSpan days to
\* MAX_NEWS_AGE_DAYS + AgeSpan days and 12 hours before now
AgeSpan == 1
\* search_news is asked for 1 to MaxResults items
MaxResults == 2
\* callers of the bulk-quote read path
MaxCallers == 2
\* symbols of the bulk fetch (the code lists 50)
MaxSymbols == 2
\* the wall clock runs from 0 to MaxNow minutes
MaxNow == 6
\* WebSocket connections opened in one behaviour
MaxConnections == 2
\* session ids the clients choose from
MaxSessionIds == 2
\* messages the clients send in one behaviour, all connections together
MaxMessages == 2
\* events one run sends between its "started" and its closing message
MaxRunEvents == 1
\* news items handed to _build_sources
MaxCited == 4

\* ------------------------------------------------- program constants
\* news_service.MAX_NEWS_AGE_DAYS; ages are held in hours, timedelta.days
\* counts whole days
MAX_NEWS_AGE_DAYS == 60
HoursPerDay == 24
\* _build_sources reads news_items[:3]
NewsCited == 3
\* fetch_data_node: search_news(news_query, max_results=10, ...)
FetchMaxResults == 10
\* TickerTapeCache(ttl_minutes=5)
ttl_minutes == 5
\* AnalyzeRequest.max_rounds Field(ge=1, le=3); websocket min(max(x, 1), 3)
MinRounds == 1
MaxRounds == 3
\* fallback summary keeps str(result)[:500]
SummaryChars == 500
\* confidences are held in hundredths: 0.6 is 60
FallbackConfidence == 60
ModeratorFallbackConfidence == 50
DefaultConfidence == 70
ConfidenceLow == 0
ConfidenceHigh == 100

VARIABLES
    entry,      \* entry point serving the request: "none", "aggregate", "sse", "ws"
    requested,  \* max_rounds as sent by the client
    state,      \* the DebateState threaded through the graph
    node,       \* next graph node the runtime will execute
    clock,      \* source of datetime.utcnow() timestamps
    executed,   \* log of node executions, in order: <<name, round>>
    produced,   \* every StreamUpdate returned by a node, in production order
    events,     \* astream_events events not yet consumed by the handler
    handler,    \* position of the request handler
    delivered,  \* events sent to the consumer, in order
    response,   \* answer of the aggregating operation
    fault,      \* why the graph run raised, "none" while it has not
    raw,        \* completion handed to a parser (parser specification)
    parsed,     \* what the parser did with it
    _cache,         \* TickerTapeCache._cache: the stored aggregate
    _last_updated,  \* TickerTapeCache._last_updated
    _lock,          \* TickerTapeCache._lock: the caller holding it
    waiters,        \* callers blocked in _lock.acquire(), first come first
    callers,        \* callers of the bulk-quote read path
    cycles,         \* number of bulk-fetch cycles started so far
    refreshed,      \* aggregate computed by the latest completed cache refresh
    fetched,        \* what each per-symbol fetch of the latest completed cycle did
    search,         \* the call of search_news: the search tool's reply, the arguments
    found,          \* what search_news returned
    active_connections, \* ConnectionManager.active_connections: session_id -> websocket
    sockets,        \* the WebSocket connections and the handler serving each
    cited           \* the call of _build_sources: its arguments and what it returned

\* the bulk-quote read path
CacheVars == <<_cache, _last_updated, _lock, waiters, callers, cycles, refreshed,
              fetched>>

\* what the debate run and the parsers leave alone
\* the duplex-channel sessions
SessionVars == <<active_connections, sockets>>

AuxVars == <<CacheVars, search, found, SessionVars, cited>>

\* one debate request and the parser under test
RunVars == <<entry, requested, state, node, executed, produced, events,
             handler, delivered, response, fault, raw, parsed, search, found,
             SessionVars, cited>>

vars == <<entry, requested, state, node, clock, executed, produced, events,
          handler, delivered, response, fault, raw, parsed, CacheVars,
          search, found, SessionVars, cited>>

\* what a graph node leaves alone
HandlerVars == <<entry, requested, handler, delivered, response, raw, parsed>>

\* ------------------------------------------------------------ helpers
Min(a, b) == IF a < b THEN a ELSE b
Max(a, b) == IF a > b THEN a ELSE b

Take(s, n) == SubSeq(s, 1, Min(Len(s), n))

\* =====================================================================
\* Persona result parsers (BullAgent / BearAgent / ModeratorAgent
\* ._parse_result)
\* =====================================================================

\* A raw completion is its text (over a three-letter alphabet, enough to
\* decide find("{") and rfind("}")) and what json.loads makes of the slice
\* between the first "{" and the last "}".
Chars == {"{", "}", "x"}
Texts == UNION {[1..n -> Chars] : n \in 0..MaxTextLen}

\* JSON values of a numeric field, by what float() and the [0,1] range
\* validation do with them.
NumKinds == {"absent", "num", "numstr", "badstr", "null", "range"}
\* JSON values of a text field.
StrKinds == {"absent", "str", "null"}
\* One entry of "arguments": an object, or something that is not an object.
ArgShapes ==
    [isobj : {TRUE}, point : {"str", "null"}, confidence : NumKinds]
    \cup {[isobj |-> FALSE, point |-> "str", confidence |-> "absent"]}
ArgLists == UNION {[1..n -> ArgShapes] : n \in 0..MaxArgs}
ArgsKinds == {"absent", "null", "list"}
RecKinds == {"absent", "LOOKS BULLISH", "LEANS BULLISH", "MIXED SIGNALS",
             "LEANS BEARISH", "LOOKS BEARISH", "looks bullish", "VERY BULLISH"}

JsonObjects ==
    {d \in [valid : {TRUE}, summary : StrKinds, arguments : ArgsKinds,
            args : ArgLists, confidence_score : NumKinds,
            recommendation : RecKinds] :
        d.arguments # "list" => d.args = << >>}
InvalidJson ==
    [valid |-> FALSE, summary |-> "absent", arguments |-> "absent",
     args |-> << >>, confidence_score |-> "absent", recommendation |-> "absent"]

valid_recommendations ==
    {"LOOKS BULLISH", "LEANS BULLISH", "MIXED SIGNALS", "LEANS BEARISH",
     "LOOKS BEARISH"}

\* str.find: index (from 0) of the first occurrence, -1 when absent
find(s, ch) ==
    IF \E i \in 1..Len(s) : s[i] = ch
    THEN (CHOOSE i \in 1..Len(s) : s[i] = ch /\ \A j \in 1..(i-1) : s[j] # ch) - 1
    ELSE -1

\* str.rfind: index (from 0) of the last occurrence, -1 when absent
rfind(s, ch) ==
    IF \E i \in 1..Len(s) : s[i] = ch
    THEN (CHOOSE i \in 1..Len(s) : s[i] = ch /\ \A j \in (i+1)..Len(s) : s[j] # ch) - 1
    ELSE -1

\* float(x): the number in hundredths, or the exception it raises
float(k) ==
    CASE k = "absent" -> [exc |-> "none", v |-> DefaultConfidence]
      [] k = "num"    -> [exc |-> "none", v |-> 80]
      [] k = "numstr" -> [exc |-> "none", v |-> 80]
      [] k = "range"  -> [exc |-> "none", v |-> 150]
      [] k = "badstr" -> [exc |-> "ValueError", v |-> 0]
      [] k = "null"   -> [exc |-> "TypeError", v |-> 0]

\* pydantic Field(ge=0.0, le=1.0); ValidationError is a ValueError
RangeCheck(v) ==
    IF v >= ConfidenceLow /\ v <= ConfidenceHigh THEN "none" ELSE "ValueError"

\* pydantic `str` field given a JSON value (the .get default is a string)
StrCheck(k) == IF k = "null" THEN "ValueError" ELSE "none"

\* First exception among the steps of an evaluation, in evaluation order
RECURSIVE FirstExc(_)
FirstExc(steps) ==
    IF steps = << >> THEN "none"
    ELSE IF Head(steps) # "none" THEN Head(steps)
    ELSE FirstExc(Tail(steps))

\* AgentArgument(point=arg.get(...), evidence=..., confidence=float(arg.get(...)))
ArgExc(a) ==
    IF ~a.isobj THEN "AttributeError"
    ELSE FirstExc(<<float(a.confidence).exc,
                    StrCheck(a.point),
                    RangeCheck(float(a.confidence).v)>>)

\* the list comprehension over data.get("arguments", [])
ArgumentsExc(doc) ==
    CASE doc.arguments = "absent" -> "none"
      [] doc.arguments = "null"   -> "TypeError"
      [] doc.arguments = "list"   ->
            FirstExc([i \in 1..Len(doc.args) |-> ArgExc(doc.args[i])])

\* exception raised while building the structured AgentAnalysis, "none" if none
StructuredExc(doc) ==
    IF ~doc.valid THEN "JSONDecodeError"
    ELSE FirstExc(<<ArgumentsExc(doc),
                    float(doc.confidence_score).exc,
                    StrCheck(doc.summary),
                    RangeCheck(float(doc.confidence_score).v)>>)

\* except (json.JSONDecodeError, ValueError, KeyError)
Caught(exc) == exc \in {"JSONDecodeError", "ValueError", "KeyError"}

JsonArguments(doc) ==
    IF doc.arguments = "list"
    THEN [i \in 1..Len(doc.args) |->
            [point |-> "json", confidence |-> float(doc.args[i].confidence).v]]
    ELSE << >>

NoAnalysis ==
    [agent_type |-> "none", summary |-> << >>, arguments |-> << >>,
     recommendation |-> "none", confidence_score |-> 0, sources |-> << >>,
     timestamp |-> 0]

StructuredAnalysis_unvalidated(agent, doc, sources, now) ==
    [agent_type |-> agent,
     summary |-> IF doc.summary = "absent" THEN <<"default">> ELSE <<"json">>,
     arguments |-> JsonArguments(doc),
     recommendation |->
        IF agent # "moderator" THEN "none"
        ELSE IF doc.recommendation = "absent" THEN "MIXED SIGNALS"
        ELSE doc.recommendation,
     confidence_score |-> float(doc.confidence_score).v,
     sources |-> sources,
     timestamp |-> now]

StructuredAnalysis(agent, doc, sources, now) ==
    [agent_type |-> agent,
     summary |-> IF doc.summary = "absent" THEN <<"default">> ELSE <<"json">>,
     arguments |-> JsonArguments(doc),
     recommendation |->
        IF agent # "moderator" THEN "none"
        ELSE IF doc.recommendation \in valid_recommendations
             THEN doc.recommendation ELSE "MIXED SIGNALS",
     confidence_score |-> float(doc.confidence_score).v,
     sources |-> sources,
     timestamp |-> now]

FallbackAnalysis_untruncated(agent, text, sources, now) ==
    [agent_type |-> agent,
     summary |-> IF text # << >> THEN text ELSE <<"Analysis completed.">>,
     arguments |-> IF agent = "moderator" THEN << >>
                   ELSE <<[point |-> "See detailed analysis",
                           confidence |-> FallbackConfidence]>>,
     recommendation |-> IF agent = "moderator" THEN "MIXED SIGNALS" ELSE "none",
     confidence_score |-> IF agent = "moderator" THEN ModeratorFallbackConfidence
                          ELSE FallbackConfidence,
     sources |-> sources,
     timestamp |-> now]

FallbackAnalysis(agent, text, sources, now) ==
    [agent_type |-> agent,
     summary |-> IF text # << >> THEN Take(text, SummaryChars)
                 ELSE <<"Analysis completed.">>,
     arguments |-> IF agent = "moderator" THEN << >>
                   ELSE <<[point |-> "See detailed analysis",
                           confidence |-> FallbackConfidence]>>,
     recommendation |-> IF agent = "moderator" THEN "MIXED SIGNALS" ELSE "none",
     confidence_score |-> IF agent = "moderator" THEN ModeratorFallbackConfidence
                          ELSE FallbackConfidence,
     sources |-> sources,
     timestamp |-> now]

\* _parse_result(result, sources): [exc, analysis]; exc # "none" means the
\* call raised exc and returned nothing
ParseResult(agent, text, doc, sources, now) ==
    LET start_idx == find(text, "{")
        end_idx   == rfind(text, "}") + 1
        sliced    == start_idx # -1 /\ end_idx > start_idx
        exc       == IF sliced THEN StructuredExc(doc) ELSE "none"
    IN  IF sliced /\ exc = "none"
        THEN [exc |-> "none", analysis |-> StructuredAnalysis(agent, doc, sources, now)]
        ELSE IF sliced /\ ~Caught(exc)
        THEN [exc |-> exc, analysis |-> NoAnalysis]
        ELSE [exc |-> "none", analysis |-> FallbackAnalysis(agent, text, sources, now)]

\* =====================================================================
\* News search: search_tool.py and news_service.py
\* =====================================================================

\* the "date" of a raw search result: empty, not an ISO date, or an ISO date
\* that lies `age` hours before now
Ages ==
    {d * HoursPerDay + h :
        d \in (MAX_NEWS_AGE_DAYS - AgeSpan)..(MAX_NEWS_AGE_DAYS + AgeSpan),
        h \in {0, 12}}
Dates ==
    {[kind |-> "empty", age |-> 0], [kind |-> "unparseable", age |-> 0]}
    \cup {[kind |-> "iso", age |-> a] : a \in Ages}

\* a raw search result: its date, whether its text mentions the company, and
\* its url, source name and title
RawItems ==
    [date : Dates, relevant : BOOLEAN, url : {"url"}, source : {"Reuters"},
     title : {"title"}]
RawLists == UNION {[1..n -> RawItems] : n \in 0..MaxNews}

\* what the search comes back with: DDGS raises; or the text handed to
\* parse_news_data is an error payload, not JSON, JSON that is no list, or a
\* list of results
FailureKinds == {"raises", "error", "unparseable", "nonlist"}
Replies ==
    {[kind |-> k, items |-> << >>] : k \in FailureKinds}
    \cup {[kind |-> "list", items |-> l] : l \in RawLists}

search_news_sync_uncaught(reply) == reply

\* search_news_sync: `except Exception` turns a raising search into an
\* error payload
search_news_sync(reply) ==
    IF reply.kind = "raises" THEN [kind |-> "error", items |-> << >>] ELSE reply

\* parse_news_data(json_str)
parse_news_data(json_str) ==
    IF json_str.kind = "list" THEN json_str.items ELSE << >>

\* timedelta.days of an age given in hours
days(age) == age \div HoursPerDay

\* _is_recent_news(date_str)
_is_recent_news(date_str) ==
    IF date_str.kind = "empty" THEN FALSE
    ELSE IF date_str.kind = "unparseable" THEN FALSE
    ELSE days(date_str.age) <= MAX_NEWS_AGE_DAYS

\* _is_relevant_news(item, ticker, company_name): decided by the item's text
_is_relevant_news(item) == item.relevant

RecentItem(item) == _is_recent_news(item.date)

\* search_news that truncates before it filters
search_news_truncate_first(reply, max_results, ticker) ==
    LET json_str == search_news_sync(reply)
        data     == Take(parse_news_data(json_str), max_results)
        recent   == SelectSeq(data, RecentItem)
        relevant == IF ticker # "none" THEN SelectSeq(recent, _is_relevant_news)
                    ELSE recent
    IN  [raised |-> json_str.kind = "raises", items |-> relevant]

\* search_news(query, max_results, ticker, company_name): the items it
\* returns; raised is TRUE when the search raised into it
search_news(reply, max_results, ticker) ==
    LET json_str == search_news_sync(reply)
        data     == parse_news_data(json_str)
        recent   == SelectSeq(data, RecentItem)
        relevant == IF ticker # "none" THEN SelectSeq(recent, _is_relevant_news)
                    ELSE recent
    IN  [raised |-> json_str.kind = "raises",
         items  |-> Take(relevant, max_results)]

NoSearch == [reply |-> [kind |-> "none", items |-> << >>], max_results |-> 0,
             ticker |-> "none"]
NoFound == [done |-> FALSE, items |-> << >>]

NewsIdle ==
    /\ search = NoSearch
    /\ found = NoFound

\* =====================================================================
\* Debate state and graph nodes
\* =====================================================================

Agents == {"bull", "bear", "moderator"}

\* StreamUpdate(type=..., agent=..., analysis=..., error=..., round_number=...)
\* round_number 0 and the strings "none" stand for None
StreamUpdate(type, agent, analysis, error, round_number) ==
    [type |-> type, agent |-> agent, analysis |-> analysis, error |-> error,
     round_number |-> round_number]

\* the state of a handler that has created no run yet
NoRun ==
    [stock_data |-> "none", news_items |-> << >>, current_round |-> 0,
     max_rounds |-> 0, bull_analysis |-> NoAnalysis,
     bear_analysis |-> NoAnalysis, moderator_analysis |-> NoAnalysis,
     debate_history |-> << >>, phase |-> "none", error |-> "none",
     stream_updates |-> << >>]

create_initial_state(max_rounds) ==
    [stock_data |-> "none", news_items |-> << >>, current_round |-> 1,
     max_rounds |-> max_rounds, bull_analysis |-> NoAnalysis,
     bear_analysis |-> NoAnalysis, moderator_analysis |-> NoAnalysis,
     debate_history |-> << >>, phase |-> "initialized", error |-> "none",
     stream_updates |-> << >>]

operator_add_last_value(left, right) == right

\* the reducer of the debate_history channel, Annotated[list[dict],
\* operator.add]: a node's returned list is added to the stored one
operator_add(left, right) == left \o right

\* debate_history entry {"role", "round", "content": analysis.to_dict()};
\* the moderator's round "final" is 0
debate_entry(role, round, analysis) ==
    [role |-> role, round |-> round, content |-> analysis]

\* Source(type, name, url); the name of a news citation is the item's
\* source name, followed by its title when it has one (the cut of a long
\* title to 60 characters is not modelled)
Source(type, name, url) == [type |-> type, name |-> name, url |-> url]

\* _build_sources: the loop over news_items[:3]
RECURSIVE news_sources(_, _)
news_sources(items, seen_sources) ==
    IF items = << >> THEN << >>
    ELSE LET item == Head(items)
         IN  IF item.url # "" /\ item.source # "" /\ item.source \notin seen_sources
             THEN <<Source("news",
                           IF item.title # "" THEN <<item.source, item.title>>
                           ELSE <<item.source>>,
                           item.url)>>
                  \o news_sources(Tail(items), seen_sources \cup {item.source})
             ELSE news_sources(Tail(items), seen_sources)

_build_sources_all_items(stock_data, news_items) ==
    <<Source("stock_data", <<"Yahoo Finance">>, stock_data)>>
    \o news_sources(news_items, {})

\* BullAgent._build_sources / BearAgent._build_sources: the quote-provider
\* citation, whose url is keyed by the ticker of stock_data, then the news
\* citations
_build_sources(stock_data, news_items) ==
    <<Source("stock_data", <<"Yahoo Finance">>, stock_data)>>
    \o news_sources(Take(news_items, NewsCited), {})

\* the news items _build_sources may be given
CitableItems ==
    [date : {[kind |-> "iso", age |-> 0]}, relevant : {TRUE},
     url : {"", "url"}, source : {"", "Reuters", "Mint"}, title : {"", "title"}]
CitableLists == UNION {[1..n -> CitableItems] : n \in 0..MaxCited}

NoCited == [stock_data |-> "none", news_items |-> << >>, done |-> FALSE,
            sources |-> << >>]
CitedIdle == cited = NoCited

agent_updates_response_first(agent, analysis, round_number) ==
    <<StreamUpdate("agent_response", agent, analysis, "none", round_number),
      StreamUpdate("agent_start", agent, NoAnalysis, "none", round_number)>>

\* the stream_updates of a persona node: agent_start, then agent_response
\* with the analysis (the moderator's carry no round_number)
agent_updates(agent, analysis, round_number) ==
    <<StreamUpdate("agent_start", agent, NoAnalysis, "none", round_number),
      StreamUpdate("agent_response", agent, analysis, "none", round_number)>>

bear_rebuttal_never(s) == NoAnalysis

\* bull_analysis_node: the bear's analysis is passed as rebuttal from the
\* second round on, None before
bear_rebuttal(s) ==
    IF s.current_round > 1 /\ s.bear_analysis # NoAnalysis
    THEN s.bear_analysis
    ELSE NoAnalysis

\* bear_analysis_node: bull_claims = state.get("bull_analysis")
bull_claims(s) == s.bull_analysis

\* the opposing analysis a node hands to its persona
opposing(name, s) ==
    IF name = "bull_analysis" THEN bear_rebuttal(s)
    ELSE IF name = "bear_analysis" THEN bull_claims(s)
    ELSE NoAnalysis

\* completions a persona call returns during a run: a well-formed object,
\* plain prose, an object that is not valid JSON, an object whose
\* confidence_score is null, an object whose arguments hold a non-object,
\* an object without recommendation
GoodDoc ==
    [valid |-> TRUE, summary |-> "str", arguments |-> "list",
     args |-> <<[isobj |-> TRUE, point |-> "str", confidence |-> "num"]>>,
     confidence_score |-> "num", recommendation |-> "LEANS BULLISH"]
RunCompletions ==
    {[text |-> <<"{", "}">>, doc |-> GoodDoc],
     [text |-> <<"x">>, doc |-> InvalidJson],
     [text |-> <<"{", "}">>, doc |-> InvalidJson],
     [text |-> <<"{", "}">>, doc |-> [GoodDoc EXCEPT !.confidence_score = "null"]],
     [text |-> <<"{", "}">>, doc |->
        [GoodDoc EXCEPT !.args = <<[isobj |-> FALSE, point |-> "str",
                                    confidence |-> "absent"]>>]],
     [text |-> <<"{", "}">>, doc |-> [GoodDoc EXCEPT !.recommendation = "absent"]]}

\* ---- astream_events(version="v2") events, as the handlers read them:
\* event kind, runnable name, and for on_chain_end whether data.output is a
\* dict and the stream_updates it carries
ChainStart(name) ==
    [event |-> "on_chain_start", name |-> name, isdict |-> FALSE,
     stream_updates |-> << >>]
ChainEnd(name, updates) ==
    [event |-> "on_chain_end", name |-> name, isdict |-> TRUE,
     stream_updates |-> updates]
\* a routing function's on_chain_end: data.output is the node name it returned
RouteEnd(name) ==
    [event |-> "on_chain_end", name |-> name, isdict |-> FALSE,
     stream_updates |-> << >>]
\* the exception of a failed run, re-raised by the event iterator
Raised ==
    [event |-> "raise", name |-> "", isdict |-> FALSE, stream_updates |-> << >>]

Streaming == entry \in {"sse", "ws"}

\* events reach a consumer only when the run was started by astream_events
Emit(evs) ==
    events' = IF Streaming THEN events \o evs ELSE events

\* a node raised: the run ends without reaching END
Raise(name, why) ==
    /\ node' = "raised"
    /\ fault' = why
    /\ Emit(<<ChainStart(name), Raised>>)
    /\ executed' = Append(executed, [name |-> name, round |-> state.current_round,
                             opposing |-> opposing(name, state)])
    /\ UNCHANGED <<state, clock, produced>>

\* route_after_fetch without its error branch
route_after_fetch_always_summary(s) == "summary"

\* route_after_fetch(state)
route_after_fetch(s) ==
    IF s.error # "none" \/ s.stock_data = "none" THEN "error_handler" ELSE "summary"

\* route_after_bear(state)
route_after_bear(s) ==
    IF s.current_round < s.max_rounds THEN "bull_analysis" ELSE "moderator"

\* what the news search comes back with during a run: the three failures,
\* or a recent relevant item followed by one that is too old
RaisingReply == [kind |-> "raises", items |-> << >>]
RunReplies ==
    {RaisingReply, [kind |-> "error", items |-> << >>],
     [kind |-> "unparseable", items |-> << >>],
     [kind |-> "list", items |->
        <<[date |-> [kind |-> "iso",
                     age |-> (MAX_NEWS_AGE_DAYS - 1) * HoursPerDay],
           relevant |-> TRUE, url |-> "url", source |-> "Reuters",
           title |-> "title"],
          [date |-> [kind |-> "iso",
                     age |-> (MAX_NEWS_AGE_DAYS + 1) * HoursPerDay],
           relevant |-> TRUE, url |-> "url", source |-> "Reuters",
           title |-> "title"]>>]}

\* fetch_data_node, then the conditional edge out of fetch_data, which reads
\* the state with the node's update applied
fetch_data_node ==
    /\ UNCHANGED HandlerVars
    /\ node = "fetch_data"
    /\ \E quote_ok \in BOOLEAN, reply \in RunReplies :
        LET news == search_news(reply, FetchMaxResults, "ticker")
            updates ==
                IF quote_ok
                THEN <<StreamUpdate("data_fetched", "none", NoAnalysis, "none", 0)>>
                ELSE <<StreamUpdate("error", "none", NoAnalysis, "fetch_failed", 0)>>
            new ==
                IF quote_ok
                THEN [state EXCEPT !.stock_data = "snapshot",
                                   !.news_items = news.items,
                                   !.phase = "bull_analyzing",
                                   !.stream_updates = updates]
                ELSE [state EXCEPT !.phase = "error",
                                   !.error = "fetch_failed",
                                   !.stream_updates = updates]
        IN  /\ IF quote_ok
               THEN /\ search' = [reply |-> reply, max_results |-> FetchMaxResults,
                                  ticker |-> "ticker"]
                    /\ found' = [done |-> ~news.raised, items |-> news.items]
               ELSE \* `if stock_data is None: return`: no news search
                    /\ reply = RaisingReply
                    /\ UNCHANGED <<search, found>>
            /\ IF quote_ok /\ news.raised
               THEN \* search_news raised and nothing in the node catches it
                    Raise("fetch_data", "collaborator")
               ELSE /\ state' = new
                    /\ node' = route_after_fetch(new)
                    /\ produced' = produced \o updates
                    /\ Emit(<<ChainStart("fetch_data"), ChainStart("route_after_fetch"),
                              RouteEnd("route_after_fetch"),
                              ChainEnd("fetch_data", updates)>>)
                    /\ executed' = Append(executed,
                            [name |-> "fetch_data", round |-> state.current_round,
                             opposing |-> opposing("fetch_data", state)])
                    /\ UNCHANGED <<clock, fault>>
    /\ UNCHANGED <<CacheVars, SessionVars, cited>>

\* summary_node: runs between fetch_data and bull_analysis
summary_node ==
    /\ UNCHANGED HandlerVars
    /\ node = "summary"
    /\ node' = "bull_analysis"
    /\ Emit(<<ChainStart("summary"), ChainEnd("summary", << >>)>>)
    /\ executed' = Append(executed, [name |-> "summary", round |-> state.current_round,
                             opposing |-> opposing("summary", state)])
    /\ UNCHANGED <<state, clock, produced, fault>>
    /\ UNCHANGED AuxVars

\* bull_analysis_node
bull_analysis_node ==
    /\ UNCHANGED HandlerVars
    /\ node = "bull_analysis"
    /\ \/ Raise("bull_analysis", "collaborator")
       \/ \E c \in RunCompletions :
            LET r == ParseResult("bull", c.text, c.doc,
                                 _build_sources(state.stock_data, state.news_items),
                                 clock)
                analysis == r.analysis
                updates == agent_updates("bull", analysis, state.current_round)
            IN  IF r.exc # "none"
                THEN Raise("bull_analysis", "parser")
                ELSE
                    /\ state' = [state EXCEPT
                            !.bull_analysis = analysis,
                            !.debate_history = operator_add(state.debate_history,
                                <<debate_entry("bull", state.current_round, analysis)>>),
                            !.phase = "bear_analyzing",
                            !.stream_updates = updates]
                    /\ node' = "bear_analysis"
                    /\ clock' = clock + 1
                    /\ produced' = produced \o updates
                    /\ Emit(<<ChainStart("bull_analysis"),
                              ChainEnd("bull_analysis", updates)>>)
                    /\ executed' = Append(executed,
                            [name |-> "bull_analysis", round |-> state.current_round,
                             opposing |-> opposing("bull_analysis", state)])
                    /\ UNCHANGED fault
    /\ UNCHANGED AuxVars

\* next_phase with > for >=
next_phase_strict(current_round, max_rounds) ==
    IF current_round > max_rounds THEN "moderating" ELSE "bull_analyzing"

\* bear_analysis_node: "moderating" if current_round >= max_rounds else
\* "bull_analyzing"
next_phase(current_round, max_rounds) ==
    IF current_round >= max_rounds THEN "moderating" ELSE "bull_analyzing"

\* bear_analysis_node, then the conditional edge out of bear_analysis, which
\* reads the state with the node's update applied
bear_analysis_node ==
    /\ UNCHANGED HandlerVars
    /\ node = "bear_analysis"
    /\ \/ Raise("bear_analysis", "collaborator")
       \/ \E c \in RunCompletions :
            LET r == ParseResult("bear", c.text, c.doc,
                                 _build_sources(state.stock_data, state.news_items),
                                 clock)
                analysis == r.analysis
                current_round == state.current_round
                max_rounds == state.max_rounds
                phase == next_phase(current_round, max_rounds)
                updates ==
                    agent_updates("bear", analysis, current_round)
                    \o (IF phase = "bull_analyzing"
                        THEN <<StreamUpdate("round_complete", "none", NoAnalysis,
                                            "none", current_round)>>
                        ELSE << >>)
                new == [state EXCEPT
                            !.bear_analysis = analysis,
                            !.debate_history = operator_add(state.debate_history,
                                <<debate_entry("bear", current_round, analysis)>>),
                            !.phase = phase,
                            !.current_round =
                                IF phase = "bull_analyzing"
                                THEN current_round + 1 ELSE current_round,
                            !.stream_updates = updates]
            IN  IF r.exc # "none"
                THEN Raise("bear_analysis", "parser")
                ELSE
                    /\ state' = new
                    /\ node' = route_after_bear(new)
                    /\ clock' = clock + 1
                    /\ produced' = produced \o updates
                    /\ Emit(<<ChainStart("bear_analysis"),
                              ChainStart("route_after_bear"),
                              RouteEnd("route_after_bear"),
                              ChainEnd("bear_analysis", updates)>>)
                    /\ executed' = Append(executed,
                            [name |-> "bear_analysis", round |-> current_round,
                             opposing |-> opposing("bear_analysis", state)])
                    /\ UNCHANGED fault
    /\ UNCHANGED AuxVars

\* moderator_node
moderator_node ==
    /\ UNCHANGED HandlerVars
    /\ node = "moderator"
    /\ \/ Raise("moderator", "collaborator")
       \/ \E c \in RunCompletions :
            LET r == ParseResult("moderator", c.text, c.doc,
                                 _build_sources(state.stock_data, state.news_items),
                                 clock)
                analysis == r.analysis
                updates ==
                    agent_updates("moderator", analysis, 0)
                    \o <<StreamUpdate("complete", "none", NoAnalysis, "none", 0)>>
            IN  IF r.exc # "none"
                THEN Raise("moderator", "parser")
                ELSE
                    /\ state' = [state EXCEPT
                            !.moderator_analysis = analysis,
                            !.debate_history = operator_add(state.debate_history,
                                <<debate_entry("moderator", 0, analysis)>>),
                            !.phase = "complete",
                            !.stream_updates = updates]
                    /\ node' = "END"
                    /\ clock' = clock + 1
                    /\ produced' = produced \o updates
                    /\ Emit(<<ChainStart("moderator"),
                              ChainEnd("moderator", updates)>>)
                    /\ executed' = Append(executed,
                            [name |-> "moderator", round |-> state.current_round,
                             opposing |-> opposing("moderator", state)])
                    /\ UNCHANGED fault
    /\ UNCHANGED AuxVars

\* error_handler_node
error_handler_node ==
    /\ UNCHANGED HandlerVars
    /\ node = "error_handler"
    /\ LET updates == <<StreamUpdate("error", "none", NoAnalysis, state.error, 0)>>
       IN  /\ state' = [state EXCEPT !.phase = "error", !.stream_updates = updates]
           /\ produced' = produced \o updates
           /\ Emit(<<ChainStart("error_handler"), ChainEnd("error_handler", updates)>>)
    /\ node' = "END"
    /\ executed' = Append(executed, [name |-> "error_handler", round |-> state.current_round,
                             opposing |-> opposing("error_handler", state)])
    /\ UNCHANGED <<clock, fault>>
    /\ UNCHANGED AuxVars

\* the run reaches END: the graph's own on_chain_end carries the final state
graph_end ==
    /\ UNCHANGED HandlerVars
    /\ node = "END"
    /\ node' = "done"
    /\ Emit(<<ChainEnd("LangGraph", state.stream_updates)>>)
    /\ UNCHANGED <<state, clock, executed, produced, fault>>
    /\ UNCHANGED AuxVars

\* =====================================================================
\* Entry points: POST /analyze, POST /analyze/stream, WebSocket
\* =====================================================================

\* max_rounds values a client may send
Requests == (MinRounds - ReqBelow)..(MaxRounds + ReqAbove)

\* a JSON event as the consumer receives it
Dict(type, agent, analysis, error, round_number, name, max_rounds) ==
    [type |-> type, agent |-> agent, analysis |-> analysis, error |-> error,
     round_number |-> round_number, node |-> name, max_rounds |-> max_rounds]

\* StreamUpdate.model_dump()
model_dump(u) ==
    Dict(u.type, u.agent, u.analysis, u.error, u.round_number, "none", 0)

model_dump_all(updates) == [i \in 1..Len(updates) |-> model_dump(updates[i])]

NoResponse ==
    [kind |-> "none", bull_analysis |-> NoAnalysis, bear_analysis |-> NoAnalysis,
     moderator_analysis |-> NoAnalysis, verdict |-> "none", total_rounds |-> 0]

\* HTTPException(status_code=500, ...)
HTTPException == [NoResponse EXCEPT !.kind = "error"]

\* AgentAnalysisResponse(...) as analyze_stock builds it: sources are not
\* passed and keep the schema default
AgentAnalysisResponse(agent_type, a, recommendation) ==
    [agent_type |-> agent_type, summary |-> a.summary, arguments |-> a.arguments,
     recommendation |-> recommendation, confidence_score |-> a.confidence_score,
     sources |-> << >>, timestamp |-> a.timestamp]

recommendation_or_HOLD_always(recommendation) == "HOLD"

\* analyze_stock: verdict=moderator.recommendation or "HOLD"
recommendation_or_HOLD(recommendation) ==
    IF recommendation # "none" THEN recommendation ELSE "HOLD"

DebateResponse_unchecked(final_state) ==
    [kind |-> "composite",
     bull_analysis |-> AgentAnalysisResponse("bull", final_state.bull_analysis, "none"),
     bear_analysis |-> AgentAnalysisResponse("bear", final_state.bear_analysis, "none"),
     moderator_analysis |-> AgentAnalysisResponse("moderator",
            final_state.moderator_analysis,
            final_state.moderator_analysis.recommendation),
     verdict |-> "HOLD",
     total_rounds |-> final_state.current_round]

\* analyze_stock after ainvoke returned final_state: the two checks, then the
\* DebateResponse
DebateResponse(final_state) ==
    IF final_state.error # "none" THEN HTTPException
    ELSE IF final_state.moderator_analysis = NoAnalysis THEN HTTPException
    ELSE LET bull == final_state.bull_analysis
             bear == final_state.bear_analysis
             moderator == final_state.moderator_analysis
         IN  [kind |-> "composite",
              bull_analysis |-> AgentAnalysisResponse("bull", bull, "none"),
              bear_analysis |-> AgentAnalysisResponse("bear", bear, "none"),
              moderator_analysis |-> AgentAnalysisResponse("moderator", moderator,
                                            moderator.recommendation),
              verdict |-> recommendation_or_HOLD(moderator.recommendation),
              total_rounds |-> final_state.current_round]

except_Exception_silent(sent) == sent

\* `except Exception as e` of the two streaming handlers: one error event
except_Exception(sent) ==
    Append(sent, Dict("error", "none", NoAnalysis, "exception", 0, "none", 0))

\* AnalyzeRequest.max_rounds: Field(default=1, ge=1, le=3)
AnalyzeRequestValid(max_rounds) ==
    max_rounds >= MinRounds /\ max_rounds <= MaxRounds

\* the clamp without its upper bound
ws_clamp_no_upper(max_rounds) == Max(max_rounds, MinRounds)

\* websocket_debate: min(max(data.get("max_rounds", 1), 1), 3)
ws_clamp(max_rounds) == Min(Max(max_rounds, MinRounds), MaxRounds)

\* POST /analyze: request validation, create_initial_state, ainvoke
analyze_stock ==
    /\ handler = "idle"
    /\ \E r \in Requests :
        /\ requested' = r
        /\ entry' = "aggregate"
        /\ IF AnalyzeRequestValid(r)
           THEN /\ state' = create_initial_state(r)
                /\ node' = "fetch_data"
                /\ handler' = "awaiting"
                /\ UNCHANGED response
           ELSE /\ response' = [NoResponse EXCEPT !.kind = "rejected"]
                /\ handler' = "closed"
                /\ UNCHANGED <<state, node>>
    /\ UNCHANGED <<clock, executed, produced, events, delivered, fault, raw, parsed>>
    /\ UNCHANGED AuxVars

\* POST /analyze: the code after ainvoke returned or raised
analyze_respond ==
    /\ handler = "awaiting"
    /\ node \in {"done", "raised"}
    /\ response' =
        IF node = "raised"
        THEN \* except Exception as e: raise HTTPException(500)
             HTTPException
        ELSE DebateResponse(state)
    /\ handler' = "closed"
    /\ UNCHANGED <<entry, requested, state, node, clock, executed, produced,
                   events, delivered, fault, raw, parsed>>
    /\ UNCHANGED AuxVars

\* POST /analyze/stream: request validation, create_initial_state, the
\* generator's first yield, astream_events started
analyze_stock_stream ==
    /\ handler = "idle"
    /\ \E r \in Requests :
        /\ requested' = r
        /\ entry' = "sse"
        /\ IF AnalyzeRequestValid(r)
           THEN /\ state' = create_initial_state(r)
                /\ node' = "fetch_data"
                /\ handler' = "streaming"
                /\ delivered' = <<Dict("started", "none", NoAnalysis, "none", 0, "none", 0)>>
                /\ events' = <<ChainStart("LangGraph")>>
                /\ UNCHANGED response
           ELSE /\ response' = [NoResponse EXCEPT !.kind = "rejected"]
                /\ handler' = "closed"
                /\ UNCHANGED <<state, node, delivered, events>>
    /\ UNCHANGED <<clock, executed, produced, fault, raw, parsed>>
    /\ UNCHANGED AuxVars

\* event_generator after its first yield: one iteration of
\* `async for event in astream_events`, or, once the iterator is exhausted,
\* the closing yield
event_generator ==
    /\ handler = "streaming"
    /\ entry = "sse"
    /\ events # << >> \/ node = "done"
    /\ IF events = << >>
       THEN \* Send complete event
            /\ delivered' = Append(delivered,
                    Dict("complete", "none", NoAnalysis, "none", 0, "none", 0))
            /\ handler' = "closed"
            /\ UNCHANGED <<events, node>>
       ELSE LET event == Head(events)
            IN  IF event.event = "raise"
                THEN \* except Exception: the run raised
                     /\ delivered' = except_Exception(delivered)
                     /\ handler' = "closed"
                     /\ events' = << >>
                     /\ UNCHANGED node
                ELSE IF event.event = "on_chain_end" /\ ~event.isdict
                THEN \* output.get on a str: AttributeError, caught by except
                     \* Exception; leaving the loop ends the run
                     /\ delivered' = except_Exception(delivered)
                     /\ handler' = "closed"
                     /\ events' = << >>
                     /\ node' = IF node \in {"done", "raised"} THEN node ELSE "cancelled"
                ELSE IF event.event = "on_chain_end"
                THEN /\ delivered' = delivered \o model_dump_all(event.stream_updates)
                     /\ events' = Tail(events)
                     /\ UNCHANGED <<handler, node>>
                ELSE /\ events' = Tail(events)
                     /\ UNCHANGED <<delivered, handler, node>>
    /\ UNCHANGED <<entry, requested, state, clock, executed, produced, response,
                   fault, raw, parsed>>
    /\ UNCHANGED AuxVars

\* websocket_debate: a {"type": "start"} message with a ticker
websocket_start ==
    /\ handler = "idle"
    /\ \E r \in Requests :
        LET max_rounds == ws_clamp(r)
        IN  /\ requested' = r
            /\ entry' = "ws"
            /\ state' = create_initial_state(max_rounds)
            /\ node' = "fetch_data"
            /\ handler' = "streaming"
            /\ delivered' = <<Dict("started", "none", NoAnalysis, "none", 0, "none",
                                   max_rounds)>>
            /\ events' = <<ChainStart("LangGraph")>>
    /\ UNCHANGED <<clock, executed, produced, response, fault, raw, parsed>>
    /\ UNCHANGED AuxVars

\* websocket_debate: one iteration of `async for event in astream_events`
ws_handle_event ==
    /\ handler = "streaming"
    /\ entry = "ws"
    /\ events # << >>
    /\ LET event == Head(events)
       IN  IF event.event = "raise"
           THEN /\ delivered' = except_Exception(delivered)
                /\ handler' = "closed"
                /\ events' = << >>
           ELSE IF event.event = "on_chain_start"
           THEN /\ delivered' = Append(delivered,
                        Dict("node_start", "none", NoAnalysis, "none", 0, event.name, 0))
                /\ events' = Tail(events)
                /\ UNCHANGED handler
           ELSE IF ~event.isdict
           THEN /\ events' = Tail(events)
                /\ UNCHANGED <<delivered, handler>>
           ELSE /\ delivered' = delivered \o model_dump_all(event.stream_updates)
                /\ events' = Tail(events)
                /\ UNCHANGED handler
    /\ UNCHANGED <<entry, requested, state, node, clock, executed, produced,
                   response, fault, raw, parsed>>
    /\ UNCHANGED AuxVars

\* websocket_debate: the event iterator is exhausted, "Send completion"
ws_finish ==
    /\ handler = "streaming"
    /\ entry = "ws"
    /\ events = << >>
    /\ node = "done"
    /\ delivered' = Append(delivered,
            Dict("complete", "none", NoAnalysis, "none", 0, "none", 0))
    /\ handler' = "closed"
    /\ UNCHANGED <<entry, requested, state, node, clock, executed, produced,
                   events, response, fault, raw, parsed>>
    /\ UNCHANGED AuxVars

\* =====================================================================
\* The bulk-quote read path: TickerTapeCache and GET /market/ticker-tape
\* =====================================================================

Callers == 1..MaxCallers
nifty_50_symbols == 1..MaxSymbols

\* None in _cache and in a caller's result; None in _last_updated
NoAggregate == [tickers |-> << >>, count |-> -1, cached_at |-> -1]
Never == -1
\* _lock while nobody holds it
Unlocked == 0

NoCaller == [kind |-> "none", pc |-> "idle", result |-> NoAggregate]

\* what yfinance does for one symbol: history with rows, an empty history,
\* an exception
FetchOutcomes == {"quote", "empty", "raises"}
Fetches == [nifty_50_symbols -> FetchOutcomes]

\* no cycle completed yet
NoFetch == [by |-> 0, outcomes |-> [symbol \in nifty_50_symbols |-> "none"]]

_fetch_stock_data_unguarded(symbol, outcome, c) ==
    <<[symbol |-> symbol, price |-> c]>>

\* _fetch_stock_data / fetch_stock_data: the quote of one symbol, tagged with
\* the caller whose cycle fetched it; None (no element) when the history is
\* empty or anything raised
_fetch_stock_data(symbol, outcome, c) ==
    IF outcome = "quote" THEN <<[symbol |-> symbol, price |-> c]>> ELSE << >>

\* [r for r in results if r is not None], in the order of nifty_50_symbols
RECURSIVE ticker_data(_, _, _)
ticker_data(symbol, outcomes, c) ==
    IF symbol > MaxSymbols THEN << >>
    ELSE _fetch_stock_data(symbol, outcomes[symbol], c)
            \o ticker_data(symbol + 1, outcomes, c)

\* the aggregate a refresh of the cache computes from the outcomes of its
\* per-symbol fetches
Aggregate(outcomes, c, cached_at) ==
    LET data == ticker_data(1, outcomes, c)
    IN  [tickers |-> data, count |-> Len(data), cached_at |-> cached_at]

_ttl_not_elapsed_never(last_updated, utcnow) == FALSE

\* datetime.utcnow() - self._last_updated < self._ttl
_ttl_not_elapsed(last_updated, utcnow) == utcnow - last_updated < ttl_minutes

_is_valid_never(cache, last_updated, utcnow) == FALSE

\* TickerTapeCache._is_valid
_is_valid(cache, last_updated, utcnow) ==
    IF cache = NoAggregate \/ last_updated = Never THEN FALSE
    ELSE _ttl_not_elapsed(last_updated, utcnow)

CacheIdle ==
    /\ _cache = NoAggregate
    /\ _last_updated = Never
    /\ _lock = Unlocked
    /\ waiters = << >>
    /\ callers = [c \in Callers |-> NoCaller]
    /\ cycles = 0
    /\ refreshed = NoAggregate
    /\ fetched = NoFetch

\* callers arrive in the order of their numbers
Arriving(c) ==
    /\ callers[c].pc = "idle"
    /\ \A d \in Callers : d < c => callers[d].pc # "idle"

\* the body of `async with self._lock` up to its first await, run by the
\* caller c that has just acquired the lock: a valid cache is returned and
\* the lock released, otherwise the per-symbol fetches are dispatched
lock_entered(c) ==
    IF _is_valid(_cache, _last_updated, clock)
    THEN /\ callers' = [callers EXCEPT ![c] =
                            [kind |-> "cache", pc |-> "done", result |-> _cache]]
         /\ _lock' = Unlocked
         /\ UNCHANGED cycles
    ELSE /\ callers' = [callers EXCEPT ![c] =
                            [kind |-> "cache", pc |-> "fetching", result |-> NoAggregate]]
         /\ _lock' = c
         /\ cycles' = cycles + 1

\* TickerTapeCache.get_ticker_tape_data is called: the lock is taken at once
\* when it is free and nobody waits for it, otherwise the caller blocks
TickerTapeCache_get_ticker_tape_data ==
    /\ \E c \in Callers :
        /\ Arriving(c)
        /\ IF _lock = Unlocked /\ waiters = << >>
           THEN /\ lock_entered(c)
                /\ UNCHANGED waiters
           ELSE /\ callers' = [callers EXCEPT ![c] =
                                [kind |-> "cache", pc |-> "waiting", result |-> NoAggregate]]
                /\ waiters' = Append(waiters, c)
                /\ UNCHANGED <<_lock, cycles>>
    /\ UNCHANGED <<_cache, _last_updated, refreshed, fetched, clock, RunVars>>

\* the released lock passes to the caller that has waited longest
TickerTapeCache_lock_acquired ==
    /\ _lock = Unlocked
    /\ waiters # << >>
    /\ lock_entered(Head(waiters))
    /\ waiters' = Tail(waiters)
    /\ UNCHANGED <<_cache, _last_updated, refreshed, fetched, clock, RunVars>>

\* asyncio.gather returned in the lock holder: the aggregate is stored and
\* returned, the lock released
TickerTapeCache_refresh ==
    /\ \E c \in Callers, outcomes \in Fetches :
        /\ callers[c].pc = "fetching"
        /\ callers[c].kind = "cache"
        /\ fetched' = [by |-> c, outcomes |-> outcomes]
        /\ _cache' = Aggregate(outcomes, c, clock)
        /\ _last_updated' = clock
        /\ callers' = [callers EXCEPT ![c] =
                            [kind |-> "cache", pc |-> "done", result |-> _cache']]
        /\ refreshed' = _cache'
    /\ _lock' = Unlocked
    /\ UNCHANGED <<waiters, cycles, clock, RunVars>>

\* TickerTapeCache.invalidate
TickerTapeCache_invalidate ==
    /\ _cache' = NoAggregate
    /\ _last_updated' = Never
    /\ UNCHANGED <<_lock, waiters, callers, cycles, refreshed, fetched, clock, RunVars>>

\* GET /market/ticker-tape: the handler dispatches its per-symbol fetches
get_ticker_tape_data ==
    /\ \E c \in Callers :
        /\ Arriving(c)
        /\ callers' = [callers EXCEPT ![c] =
                            [kind |-> "endpoint", pc |-> "fetching", result |-> NoAggregate]]
        /\ cycles' = cycles + 1
    /\ UNCHANGED <<_cache, _last_updated, _lock, waiters, refreshed, fetched, clock,
                   RunVars>>

\* GET /market/ticker-tape: asyncio.gather returned, the answer is sent
get_ticker_tape_data_return ==
    /\ \E c \in Callers, outcomes \in Fetches :
        /\ callers[c].pc = "fetching"
        /\ callers[c].kind = "endpoint"
        /\ fetched' = [by |-> c, outcomes |-> outcomes]
        /\ callers' = [callers EXCEPT ![c] =
                [kind |-> "endpoint", pc |-> "done",
                 result |-> [tickers |-> ticker_data(1, outcomes, c),
                             count |-> Len(ticker_data(1, outcomes, c))]]]
    /\ UNCHANGED <<_cache, _last_updated, _lock, waiters, cycles, refreshed, clock, RunVars>>

\* a minute passes on the wall clock
utcnow_advances ==
    /\ clock < MaxNow
    /\ clock' = clock + 1
    /\ UNCHANGED <<CacheVars, RunVars>>

\* =====================================================================
\* WebSocket sessions: ConnectionManager and websocket_debate
\* =====================================================================

Connections == 1..MaxConnections
SessionIds == 1..MaxSessionIds

\* `session_id not in self.active_connections`
NoConnection == 0

\* a JSON message of a client; max_rounds is "int" when it is a number or
\* absent, "str" when it is a JSON string
ClientMessage(type, ticker, max_rounds) ==
    [type |-> type, ticker |-> ticker, max_rounds |-> max_rounds]

ClientMessages ==
    {ClientMessage("start", "TCS", "int"),
     ClientMessage("start", "", "int"),
     ClientMessage("start", "TCS", "str"),
     ClientMessage("ping", "", "int"),
     ClientMessage("stop", "", "int"),
     ClientMessage("noop", "", "int")}

\* a JSON message of the server; `by` is the connection whose handler sent it
ServerMessage(type, by) == [type |-> type, by |-> by]

\* a connection nobody opened yet
Unopened ==
    [session_id |-> 0, live |-> FALSE, pc |-> "unopened", inbox |-> << >>,
     sent |-> 0, received |-> << >>, left |-> 0, failed |-> FALSE]

SessionIdle ==
    /\ active_connections = [s \in SessionIds |-> NoConnection]
    /\ sockets = [c \in Connections |-> Unopened]

\* ConnectionManager.connect: self.active_connections[session_id] = websocket
connect(conns, websocket, session_id) == [conns EXCEPT ![session_id] = websocket]

\* ConnectionManager.disconnect
disconnect(conns, session_id) ==
    IF conns[session_id] # NoConnection
    THEN [conns EXCEPT ![session_id] = NoConnection]
    ELSE conns

\* ConnectionManager.send_update: send_json on the websocket registered for
\* session_id. A send on a connection that is no longer live either raises
\* (caught: the session is disconnected) or is lost without an error.
send_update(conns, socks, session_id, data, raises) ==
    IF conns[session_id] = NoConnection
    THEN [active_connections |-> conns, sockets |-> socks, failed |-> FALSE]
    ELSE LET websocket == conns[session_id]
         IN  IF socks[websocket].live
             THEN [active_connections |-> conns,
                   sockets |-> [socks EXCEPT ![websocket].received = Append(@, data)],
                   failed |-> FALSE]
             ELSE IF raises
             THEN [active_connections |-> disconnect(conns, session_id),
                   sockets |-> socks, failed |-> TRUE]
             ELSE [active_connections |-> conns, sockets |-> socks, failed |-> FALSE]

\* messages the clients have sent so far
RECURSIVE MessagesSent(_, _)
MessagesSent(socks, c) ==
    IF c = 0 THEN 0 ELSE socks[c].sent + MessagesSent(socks, c - 1)

\* a client opens /ws/debate/{session_id}: manager.connect. Connections are
\* numbered in the order they are opened.
websocket_debate ==
    /\ \E c \in Connections, session_id \in SessionIds :
        /\ sockets[c].pc = "unopened"
        /\ \A b \in 1..(c - 1) : sockets[b].pc # "unopened"
        /\ active_connections' = connect(active_connections, c, session_id)
        /\ sockets' = [sockets EXCEPT ![c].session_id = session_id,
                                      ![c].live = TRUE,
                                      ![c].pc = "receiving"]
    /\ UNCHANGED <<clock, CacheVars, entry, requested, state, node, executed,
                   produced, events, handler, delivered, response, fault, raw,
                   parsed, search, found, cited>>

\* the client sends a message on its connection
client_send ==
    /\ MessagesSent(sockets, MaxConnections) < MaxMessages
    /\ \E c \in Connections, data \in ClientMessages :
        /\ sockets[c].live
        /\ sockets' = [sockets EXCEPT ![c].inbox = Append(@, data),
                                      ![c].sent = @ + 1]
    /\ UNCHANGED <<active_connections, clock, CacheVars, entry, requested, state,
                   node, executed, produced, events, handler, delivered,
                   response, fault, raw, parsed, search, found, cited>>

\* the client closes its connection
client_close ==
    /\ \E c \in Connections :
        /\ sockets[c].live
        /\ sockets' = [sockets EXCEPT ![c].live = FALSE]
    /\ UNCHANGED <<active_connections, clock, CacheVars, entry, requested, state,
                   node, executed, produced, events, handler, delivered,
                   response, fault, raw, parsed, search, found, cited>>

awaiting_message_also_running(socket) == socket.pc \in {"receiving", "running"}

\* the handler is at `data = await websocket.receive_json()`; the graph run
\* of a start message is iterated inside the loop body, before the next
\* receive
awaiting_message(socket) == socket.pc = "receiving"

\* websocket_debate: `data = await websocket.receive_json()` and the branch
\* taken on data, up to the next await of a message or of a graph event
websocket_receive ==
    /\ \E c \in Connections, raises \in BOOLEAN :
        LET session_id == sockets[c].session_id
        IN  /\ awaiting_message(sockets[c])
            /\ IF sockets[c].inbox = << >>
               THEN \* except WebSocketDisconnect
                    /\ ~sockets[c].live
                    /\ active_connections' = disconnect(active_connections, session_id)
                    /\ sockets' = [sockets EXCEPT ![c].pc = "returned"]
               ELSE LET data == Head(sockets[c].inbox)
                        read == [sockets EXCEPT ![c].inbox = Tail(@)]
                        sent(type) == send_update(active_connections, read, session_id,
                                                  ServerMessage(type, c), raises)
                    IN  IF data.type = "start" /\ data.ticker = ""
                        THEN \* "Ticker is required"; continue
                             /\ active_connections' = sent("error").active_connections
                             /\ sockets' = sent("error").sockets
                        ELSE IF data.type = "start" /\ data.max_rounds = "str"
                        THEN \* max(str, 1) raises TypeError: except Exception
                             /\ active_connections' =
                                    disconnect(sent("error").active_connections, session_id)
                             /\ sockets' = [sent("error").sockets EXCEPT
                                                ![c].pc = "returned", ![c].live = FALSE]
                        ELSE IF data.type = "start"
                        THEN /\ active_connections' = sent("started").active_connections
                             /\ sockets' = [sent("started").sockets EXCEPT
                                                ![c].pc = "running",
                                                ![c].left = MaxRunEvents,
                                                ![c].failed = sent("started").failed]
                        ELSE IF data.type = "ping"
                        THEN /\ active_connections' = sent("pong").active_connections
                             /\ sockets' = sent("pong").sockets
                        ELSE IF data.type = "stop"
                        THEN \* break: the handler returns
                             /\ active_connections' = sent("stopped").active_connections
                             /\ sockets' = [sent("stopped").sockets EXCEPT
                                                ![c].pc = "returned", ![c].live = FALSE]
                        ELSE /\ sockets' = read
                             /\ UNCHANGED active_connections
    /\ UNCHANGED <<clock, CacheVars, entry, requested, state, node, executed,
                   produced, events, handler, delivered, response, fault, raw,
                   parsed, search, found, cited>>

\* websocket_debate: one iteration of `async for event in astream_events`
\* that sends an update, or the run raising into `except Exception as e`
websocket_run ==
    /\ \E c \in Connections, raises \in BOOLEAN, run_raises \in BOOLEAN :
        LET session_id == sockets[c].session_id
            sent(type) == send_update(active_connections, sockets, session_id,
                                      ServerMessage(type, c), raises)
        IN  /\ sockets[c].pc = "running"
            /\ sockets[c].left > 0
            /\ IF run_raises
               THEN /\ active_connections' = sent("error").active_connections
                    /\ sockets' = [sent("error").sockets EXCEPT
                                        ![c].pc = "receiving", ![c].left = 0]
               ELSE /\ active_connections' = sent("update").active_connections
                    /\ sockets' = [sent("update").sockets EXCEPT
                                        ![c].left = @ - 1,
                                        ![c].failed = @ \/ sent("update").failed]
    /\ UNCHANGED <<clock, CacheVars, entry, requested, state, node, executed,
                   produced, events, handler, delivered, response, fault, raw,
                   parsed, search, found, cited>>

\* websocket_debate: the event iterator is exhausted, "Send completion"
websocket_complete ==
    /\ \E c \in Connections, raises \in BOOLEAN :
        LET session_id == sockets[c].session_id
            sent == send_update(active_connections, sockets, session_id,
                                ServerMessage("complete", c), raises)
        IN  /\ sockets[c].pc = "running"
            /\ sockets[c].left = 0
            /\ active_connections' = sent.active_connections
            /\ sockets' = [sent.sockets EXCEPT ![c].pc = "receiving"]
    /\ UNCHANGED <<clock, CacheVars, entry, requested, state, node, executed,
                   produced, events, handler, delivered, response, fault, raw,
                   parsed, search, found, cited>>

\* =====================================================================
\* Specifications
\* =====================================================================

NoRaw == [agent |-> "none", text |-> << >>, doc |-> InvalidJson, sources |-> << >>]
NoParse == [exc |-> "pending", analysis |-> NoAnalysis]

Init ==
    /\ entry = "none"
    /\ requested = 0
    /\ state = NoRun
    /\ node = "idle"
    /\ clock = 1
    /\ executed = << >>
    /\ produced = << >>
    /\ events = << >>
    /\ handler = "idle"
    /\ delivered = << >>
    /\ response = NoResponse
    /\ fault = "none"
    /\ raw = NoRaw
    /\ parsed = NoParse
    /\ CacheIdle
    /\ SessionIdle
    /\ CitedIdle
    /\ NewsIdle

Next ==
    \/ analyze_stock
    \/ analyze_stock_stream
    \/ websocket_start
    \/ fetch_data_node
    \/ summary_node
    \/ bull_analysis_node
    \/ bear_analysis_node
    \/ moderator_node
    \/ error_handler_node
    \/ graph_end
    \/ analyze_respond
    \/ event_generator
    \/ ws_handle_event
    \/ ws_finish

Spec == Init /\ [][Next]_vars

\* ---- the parsers alone, over every completion within the bounds
\* citation lists handed to a parser
SourceLists ==
    {_build_sources("snapshot", << >>),
     _build_sources("snapshot", <<[date |-> [kind |-> "iso", age |-> 0],
                                   relevant |-> TRUE, url |-> "url",
                                   source |-> "Reuters", title |-> "title"]>>)}

\* completions about as long as the fallback summary may get: x...x and a
\* last character
LongTexts ==
    {[i \in 1..n |-> IF i = n THEN ch ELSE "x"] :
        n \in (SummaryChars - 1)..(SummaryChars + MaxOverflow), ch \in Chars}

Completions ==
    [agent : Agents, text : Texts, doc : JsonObjects \cup {InvalidJson},
     sources : SourceLists]
    \cup [agent : Agents, text : LongTexts, doc : {InvalidJson}, sources : SourceLists]

ParseInit ==
    /\ entry = "none"
    /\ requested = 0
    /\ state = NoRun
    /\ node = "idle"
    /\ clock = 1
    /\ executed = << >>
    /\ produced = << >>
    /\ events = << >>
    /\ handler = "idle"
    /\ delivered = << >>
    /\ response = NoResponse
    /\ fault = "none"
    /\ raw \in Completions
    /\ parsed = NoParse
    /\ CacheIdle
    /\ SessionIdle
    /\ CitedIdle
    /\ NewsIdle

\* _parse_result(result, sources)
parse_result ==
    /\ parsed = NoParse
    /\ parsed' = ParseResult(raw.agent, raw.text, raw.doc, raw.sources, clock)
    /\ UNCHANGED <<entry, requested, state, node, clock, executed, produced,
                   events, handler, delivered, response, fault, raw>>
    /\ UNCHANGED AuxVars

ParseNext == parse_result

ParseSpec == ParseInit /\ [][ParseNext]_vars

\* ---- the bulk-quote read path alone, under concurrent callers
CacheInit ==
    /\ entry = "none"
    /\ requested = 0
    /\ state = NoRun
    /\ node = "idle"
    /\ clock = 0
    /\ executed = << >>
    /\ produced = << >>
    /\ events = << >>
    /\ handler = "idle"
    /\ delivered = << >>
    /\ response = NoResponse
    /\ fault = "none"
    /\ raw = NoRaw
    /\ parsed = NoParse
    /\ CacheIdle
    /\ SessionIdle
    /\ CitedIdle
    /\ NewsIdle

CacheNext ==
    \/ TickerTapeCache_get_ticker_tape_data
    \/ TickerTapeCache_lock_acquired
    \/ TickerTapeCache_refresh
    \/ TickerTapeCache_invalidate
    \/ get_ticker_tape_data
    \/ get_ticker_tape_data_return
    \/ utcnow_advances

CacheSpec == CacheInit /\ [][CacheNext]_vars

\* ---- search_news alone, over every reply of the search within the bounds
Searches == [reply : Replies, max_results : 1..MaxResults, ticker : {"none", "ticker"}]

NewsInit ==
    /\ entry = "none"
    /\ requested = 0
    /\ state = NoRun
    /\ node = "idle"
    /\ clock = 1
    /\ executed = << >>
    /\ produced = << >>
    /\ events = << >>
    /\ handler = "idle"
    /\ delivered = << >>
    /\ response = NoResponse
    /\ fault = "none"
    /\ raw = NoRaw
    /\ parsed = NoParse
    /\ CacheIdle
    /\ SessionIdle
    /\ CitedIdle
    /\ search \in Searches
    /\ found = NoFound

\* one call of search_news
search_news_call ==
    /\ ~found.done
    /\ LET news == search_news(search.reply, search.max_results, search.ticker)
       IN  /\ ~news.raised
           /\ found' = [done |-> TRUE, items |-> news.items]
    /\ UNCHANGED <<entry, requested, state, node, clock, executed, produced,
                   events, handler, delivered, response, fault, raw, parsed,
                   CacheVars, search, SessionVars, cited>>

NewsNext == search_news_call

NewsSpec == NewsInit /\ [][NewsNext]_vars

\* ---- WebSocket sessions alone: clients connect, send and close
SessionInit ==
    /\ entry = "none"
    /\ requested = 0
    /\ state = NoRun
    /\ node = "idle"
    /\ clock = 1
    /\ executed = << >>
    /\ produced = << >>
    /\ events = << >>
    /\ handler = "idle"
    /\ delivered = << >>
    /\ response = NoResponse
    /\ fault = "none"
    /\ raw = NoRaw
    /\ parsed = NoParse
    /\ CacheIdle
    /\ SessionIdle
    /\ CitedIdle
    /\ NewsIdle

SessionNext ==
    \/ websocket_debate
    \/ client_send
    \/ client_close
    \/ websocket_receive
    \/ websocket_run
    \/ websocket_complete

SessionSpec == SessionInit /\ [][SessionNext]_vars

\* ---- _build_sources alone, over every list of news items within the bounds
SourcesInit ==
    /\ entry = "none"
    /\ requested = 0
    /\ state = NoRun
    /\ node = "idle"
    /\ clock = 1
    /\ executed = << >>
    /\ produced = << >>
    /\ events = << >>
    /\ handler = "idle"
    /\ delivered = << >>
    /\ response = NoResponse
    /\ fault = "none"
    /\ raw = NoRaw
    /\ parsed = NoParse
    /\ CacheIdle
    /\ SessionIdle
    /\ NewsIdle
    /\ cited \in [stock_data : {"snapshot"}, news_items : CitableLists,
                  done : {FALSE}, sources : {<< >>}]

\* one call of _build_sources
build_sources_call ==
    /\ ~cited.done
    /\ cited' = [cited EXCEPT
                    !.done = TRUE,
                    !.sources = _build_sources(cited.stock_data, cited.news_items)]
    /\ UNCHANGED <<entry, requested, state, node, clock, executed, produced,
                   events, handler, delivered, response, fault, raw, parsed,
                   CacheVars, search, found, SessionVars>>

SourcesNext == build_sources_call

SourcesSpec == SourcesInit /\ [][SourcesNext]_vars

\* =====================================================================
\* Properties
\* =====================================================================

\* number of executions of a node so far
Count(name) == Cardinality({i \in 1..Len(executed) : executed[i].name = name})

\* number of events of seq whose type is in T
Types(seq, T) == Cardinality({i \in 1..Len(seq) : seq[i].type \in T})

RunCreated == state.phase # "none"
FetchSucceeded == Count("fetch_data") = 1 /\ state.stock_data # "none"
FetchFailed == Count("fetch_data") = 1 /\ state.stock_data = "none"
Terminal == node \in {"done", "raised", "cancelled"}

\* last debate_history entry of a role
LastEntry(role) ==
    LET h == state.debate_history
        idx == {i \in 1..Len(h) : h[i].role = role}
    IN  h[CHOOSE i \in idx : \A j \in idx : j <= i]

\* C1: when a run reaches phase complete, the bull node and the bear node
\* have each executed exactly max_rounds times.
C1_RoundPairsEqualMaxRounds ==
    state.phase = "complete" =>
        /\ Count("bull_analysis") = state.max_rounds
        /\ Count("bear_analysis") = state.max_rounds

\* C2: when the bear node finishes round r < max_rounds it sets current_round
\* to r+1, emits round_complete for r and the bull node runs next; the
\* moderator runs next only after a bear round with current_round =
\* max_rounds that emitted no round_complete.
C2_BearDecision ==
    [][(node = "bear_analysis" /\ node' \in {"bull_analysis", "moderator"}) =>
        LET r == state.current_round
            out == state'.stream_updates
            round_complete == \E i \in 1..Len(out) : out[i].type = "round_complete"
        IN  /\ r < state.max_rounds =>
                /\ state'.current_round = r + 1
                /\ \E i \in 1..Len(out) :
                        out[i].type = "round_complete" /\ out[i].round_number = r
                /\ node' = "bull_analysis"
            /\ node' = "moderator" =>
                /\ r = state.max_rounds
                /\ ~round_complete
      ]_vars

\* C3: the moderator node executes at most once; once the run of a
\* successful quote fetch has ended it has executed exactly once (read here
\* for the runs in which every collaborator call returned); and it starts
\* only when both slots hold the analyses of the last executed round.
C3_ModeratorExactlyOnce ==
    /\ Count("moderator") <= 1
    /\ (Terminal /\ FetchSucceeded /\ fault # "collaborator") => Count("moderator") = 1
    /\ node = "moderator" =>
        /\ state.bull_analysis # NoAnalysis
        /\ state.bear_analysis # NoAnalysis
        /\ state.bull_analysis = LastEntry("bull").content
        /\ state.bear_analysis = LastEntry("bear").content
        /\ LastEntry("bull").round = LastEntry("bear").round
        /\ \A i \in 1..Len(state.debate_history) :
                state.debate_history[i].round <= LastEntry("bear").round

C5_ParsersNeverRaise == parsed.exc \in {"pending", "none"}

\* C6: the events delivered for an incremental run hold exactly one event of
\* type complete or error, and it is the last one delivered.
C6_ExactlyOneClosingEvent ==
    (Streaming /\ delivered # << >>) =>
        LET closing == Types(delivered, {"complete", "error"})
        IN  /\ closing <= 1
            /\ closing = 1 => delivered[Len(delivered)].type \in {"complete", "error"}
            /\ handler = "closed" => closing = 1

\* C7: the first delivered event is started, and what follows it, up to the
\* closing event, is exactly the events the nodes produced, in order, each
\* once, unchanged.
C7_DeliveredIsProduced ==
    (Streaming /\ delivered # << >>) =>
        LET n == Len(delivered)
            body == IF handler = "closed" THEN SubSeq(delivered, 2, n - 1)
                    ELSE SubSeq(delivered, 2, n)
            all == model_dump_all(produced)
        IN  /\ delivered[1].type = "started"
            /\ Len(body) <= Len(all)
            /\ body = SubSeq(all, 1, Len(body))
            /\ (handler = "closed" /\ node = "done") => body = all

\* C8: when the quote fetch fails the nodes produce exactly one error event.
C8_OneErrorEvent ==
    FetchFailed => Types(produced, {"error"}) = 1

\* C9: in every state of a run created with max_rounds in 1..3,
\* 1 <= current_round <= max_rounds, and current_round never decreases from
\* one state to the next.
C9_RoundWithinBounds ==
    /\ []((RunCreated /\ state.max_rounds \in MinRounds..MaxRounds) =>
            /\ 1 <= state.current_round
            /\ state.current_round <= state.max_rounds)
    /\ [][state'.current_round >= state.current_round]_vars

\* a run that reached its last round after looping
C9_Witness ==
    state.max_rounds = MaxRounds /\ state.current_round = MaxRounds
    /\ Count("bear_analysis") >= 2

\* C10 as stated: on every entry point a requested max_rounds outside [1,3]
\* is clamped into the range and the run starts with the clamped value.
C10_ClampedOnEveryEntryPoint ==
    entry # "none" =>
        /\ RunCreated
        /\ requested < MinRounds => state.max_rounds = MinRounds
        /\ requested > MaxRounds => state.max_rounds = MaxRounds
        /\ requested \in MinRounds..MaxRounds => state.max_rounds = requested

\* C10 amended: every run that exists has max_rounds in [1,3]; the WebSocket
\* entry point clamps the requested value, the aggregating and SSE entry
\* points reject a request outside the range and create no run.
C10_MaxRoundsInRange ==
    /\ RunCreated => state.max_rounds \in MinRounds..MaxRounds
    /\ (entry = "ws") =>
        /\ RunCreated
        /\ requested < MinRounds => state.max_rounds = MinRounds
        /\ requested > MaxRounds => state.max_rounds = MaxRounds
        /\ requested \in MinRounds..MaxRounds => state.max_rounds = requested
    /\ (entry \in {"aggregate", "sse"}) =>
        IF requested \in MinRounds..MaxRounds
        THEN RunCreated /\ state.max_rounds = requested
        ELSE ~RunCreated /\ node = "idle" /\ response.kind = "rejected"

\* a WebSocket run started from a request above the range
C10_Witness ==
    entry = "ws" /\ requested > MaxRounds /\ state.max_rounds = MaxRounds
    /\ Count("fetch_data") = 1

\* C11: when every collaborator call returned, a run that has stopped
\* executing nodes is in phase complete or phase error, and the bull/bear
\* loop has run at most max_rounds times.
C11_TerminatesInTerminalPhase ==
    /\ RunCreated => Count("bull_analysis") <= state.max_rounds
    /\ RunCreated => Count("bear_analysis") <= state.max_rounds
    /\ (Terminal /\ fault # "collaborator") =>
            state.phase \in {"complete", "error"}

\* C12: the aggregating operation answers with an error response whenever
\* the final state carries an error or its moderator slot is empty, and
\* otherwise with one composite result built from the final state's bull,
\* bear and moderator analyses.
C12_AggregateErrorOrComposite ==
    (entry = "aggregate" /\ handler = "closed" /\ node = "done") =>
        IF state.error # "none" \/ state.moderator_analysis = NoAnalysis
        THEN response.kind = "error"
        ELSE /\ response.kind = "composite"
             /\ \A slot \in {"bull_analysis", "bear_analysis", "moderator_analysis"} :
                    /\ response[slot].summary = state[slot].summary
                    /\ response[slot].arguments = state[slot].arguments
                    /\ response[slot].confidence_score = state[slot].confidence_score
             /\ response.moderator_analysis.recommendation
                    = state.moderator_analysis.recommendation

\* a run whose final state carries an error has been answered
C12_Witness ==
    /\ entry = "aggregate" /\ handler = "closed" /\ node = "done"
    /\ state.error # "none"
    /\ response.kind = "error"

\* C13: when a collaborator or the graph runtime raised during a run, the
\* aggregating mode has answered with one error response, and an
\* incremental mode has delivered exactly one error event, as the last
\* event of the run, and no complete event; the handler has ended normally.
C13_ExceptionBecomesOneError ==
    (fault = "collaborator" /\ handler = "closed") =>
        IF entry = "aggregate"
        THEN response.kind = "error" /\ delivered = << >>
        ELSE /\ response = NoResponse
             /\ Types(delivered, {"error"}) = 1
             /\ delivered[Len(delivered)].type = "error"
             /\ Types(delivered, {"complete"}) = 0

\* a WebSocket run in which a persona's model call raised has been closed
C13_Witness ==
    /\ fault = "collaborator" /\ handler = "closed" /\ entry = "ws"
    /\ node = "raised"
    /\ Count("bull_analysis") = 1

\* callers whose bulk-fetch cycle is running
Fetching == {c \in Callers : callers[c].pc = "fetching"}

\* C14: callers of the bulk-quote read path that are in flight together,
\* none of them answered yet, have caused exactly one bulk-fetch cycle, and
\* no two bulk-fetch cycles ever run at the same time.
C14_OneCycleNoOverlap ==
    /\ Cardinality(Fetching) <= 1
    /\ (/\ \E c \in Callers : callers[c].pc # "idle"
        /\ \A c \in Callers : callers[c].pc # "done") => cycles = 1

\* caller c of the cache takes the lock in this step
Acquires(c) ==
    /\ callers[c].pc \in {"idle", "waiting"}
    /\ callers'[c].pc \in {"fetching", "done"}
    /\ callers'[c].kind = "cache"

\* caller c is answered from the cache in this step, and no fetch starts
Shares(c) ==
    /\ callers'[c].pc = "done"
    /\ callers'[c].result = refreshed
    /\ cycles' = cycles

\* C15 (as stated): a caller of the cache that takes the lock after waiting
\* for it during a refresh, or on arrival less than the TTL after a refresh
\* completed, returns the aggregate of that refresh and starts no fetch.
C15_WaitersAndEarlyCallersShare ==
    [][\A c \in Callers :
        (/\ Acquires(c)
         /\ refreshed # NoAggregate
         /\ \/ callers[c].pc = "waiting"
            \/ clock - refreshed.cached_at < ttl_minutes)
        => Shares(c)]_vars

\* C15 (amended): a caller of the cache that takes the lock after a refresh
\* completed returns the aggregate of that refresh and starts no fetch,
\* provided less than the TTL has passed since the refresh completed and
\* invalidate() has not cleared its aggregate; otherwise it starts a
\* refresh of its own.
C15_ValidCacheIsShared ==
    [][\A c \in Callers :
        Acquires(c) =>
            IF /\ refreshed # NoAggregate
               /\ _cache # NoAggregate
               /\ clock - refreshed.cached_at < ttl_minutes
            THEN Shares(c)
            ELSE callers'[c].pc = "fetching" /\ cycles' = cycles + 1]_vars

\* a caller has been answered with the aggregate another caller's refresh
\* computed
C15_Witness ==
    \E c \in Callers :
        /\ callers[c].kind = "cache"
        /\ callers[c].pc = "done"
        /\ callers[c].result = refreshed
        /\ refreshed.count > 0
        /\ refreshed.tickers[1].price # c

\* the lock holder's refresh completes in this step
Refreshes ==
    \E c \in Callers :
        /\ callers[c].pc = "fetching" /\ callers[c].kind = "cache"
        /\ callers'[c].pc = "done"
        /\ _cache' = callers'[c].result

\* C16 (as stated): a stored aggregate is cleared or replaced only by a
\* refresh completing after the TTL has expired.
C16_OnlyExpiryReplaces ==
    [][(_cache # NoAggregate /\ _cache' # _cache) =>
            (Refreshes /\ clock - _last_updated >= ttl_minutes)]_vars

\* C16 (amended): the stored aggregate is replaced only by a refresh that
\* completes while the cache is empty or its TTL has expired, and is
\* cleared only by invalidate(), whenever that is called.
C16_ReplacedOnExpiryClearedByInvalidate ==
    [][_cache' # _cache =>
            \/ /\ _cache' = NoAggregate /\ _last_updated' = Never
               /\ UNCHANGED <<_lock, waiters, callers, cycles>>
            \/ /\ Refreshes
               /\ _cache' # NoAggregate
               /\ \/ _cache = NoAggregate
                  \/ clock - _last_updated >= ttl_minutes]_vars

\* the aggregate of one refresh has been replaced by that of a refresh
\* completed at least the TTL later
C16_Witness ==
    \E c, d \in Callers :
        /\ callers[c].kind = "cache" /\ callers[c].pc = "done"
        /\ callers[d].kind = "cache" /\ callers[d].pc = "done"
        /\ callers[c].result # NoAggregate
        /\ _cache = callers[d].result
        /\ _cache # callers[c].result
        /\ _cache.cached_at >= callers[c].result.cached_at + ttl_minutes

\* the text holds the character ch
Contains(text, ch) == \E i \in 1..Len(text) : text[i] = ch

\* C17: for a non-empty completion without "{" or without "}", the bull and
\* bear parsers return the fallback analysis: the first 500 characters of
\* the text as summary, one synthetic argument of confidence 0.6,
\* confidence_score 0.6, and the citation list they were given.
C17_NoBraceFallsBack ==
    (/\ parsed.exc # "pending"
     /\ raw.agent \in {"bull", "bear"}
     /\ raw.text # << >>
     /\ ~Contains(raw.text, "{") \/ ~Contains(raw.text, "}")) =>
        /\ parsed.exc = "none"
        /\ parsed.analysis.agent_type = raw.agent
        /\ Len(parsed.analysis.summary) = Min(Len(raw.text), 500)
        /\ \A i \in 1..Len(parsed.analysis.summary) :
                parsed.analysis.summary[i] = raw.text[i]
        /\ Len(parsed.analysis.arguments) = 1
        /\ parsed.analysis.arguments[1].confidence = 60
        /\ parsed.analysis.confidence_score = 60
        /\ parsed.analysis.sources = raw.sources

\* a completion of more than 500 characters without "{" has been parsed
C17_Witness ==
    /\ parsed.exc = "none"
    /\ raw.agent = "bear"
    /\ Len(raw.text) > 500
    /\ ~Contains(raw.text, "{")
    /\ Contains(raw.text, "}")
    /\ Len(parsed.analysis.summary) = 500
    /\ Len(raw.sources) = 2

\* C18: an analysis returned by the moderator parser has one of the five
\* recommendation labels; it is MIXED SIGNALS when the completion's
\* recommendation is absent, differs in case or is any other value, and when
\* the parser falls back (no JSON object in the text, or invalid JSON).
C18_ModeratorRecommendationClosed ==
    (parsed.exc = "none" /\ raw.agent = "moderator") =>
        LET five == {"LOOKS BULLISH", "LEANS BULLISH", "MIXED SIGNALS",
                     "LEANS BEARISH", "LOOKS BEARISH"}
            recommendation == parsed.analysis.recommendation
        IN  /\ recommendation \in five
            /\ raw.doc.recommendation \notin five => recommendation = "MIXED SIGNALS"
            /\ ~raw.doc.valid => recommendation = "MIXED SIGNALS"
            /\ (~Contains(raw.text, "{") \/ ~Contains(raw.text, "}"))
                    => recommendation = "MIXED SIGNALS"

\* a well-formed completion whose recommendation differs in case from a
\* label has been parsed into a structured analysis
C18_Witness ==
    /\ parsed.exc = "none"
    /\ raw.agent = "moderator"
    /\ raw.doc.valid
    /\ raw.doc.recommendation = "looks bullish"
    /\ raw.text = <<"{", "}">>
    /\ parsed.analysis.summary = <<"json">>
    /\ parsed.analysis.recommendation = "MIXED SIGNALS"

\* the news search of this run failed: it raised, or returned an error
\* payload or text that is not JSON
NewsFailed == search.reply.kind \in {"raises", "error", "unparseable"}

\* C19: when the news search fails, the fetch stage completes with an empty
\* news list and phase bull_analyzing and the run goes on towards the bull
\* node; the run is never in phase error because of it.
C19_NewsFailureIsNotFatal ==
    /\ [](NewsFailed =>
            /\ found.done
            /\ state.news_items = << >>
            /\ state.stock_data # "none"
            /\ state.error = "none"
            /\ state.phase # "error"
            /\ Count("error_handler") = 0)
    /\ [][(NewsFailed' /\ node = "fetch_data" /\ node' # "fetch_data") =>
            /\ state'.phase = "bull_analyzing"
            /\ node' = "summary"
            /\ fault' = "none"]_vars

\* a run whose news search raised has executed its bull node
C19_Witness ==
    /\ search.reply.kind = "raises"
    /\ Count("bull_analysis") = 1
    /\ state.news_items = << >>

\* the raw results of the search under test
RawResults == search.reply.items

\* C20: the recency filter keeps no item dated more than 60 x 24 hours
\* before now and no item whose date is empty or unparseable; it keeps an
\* item dated 59 days before now and drops one dated 61 days before now.
C20_RecencyFilter ==
    (found.done /\ search.reply.kind = "list") =>
        /\ \A i \in 1..Len(found.items) :
                /\ found.items[i].date.kind = "iso"
                /\ found.items[i].date.age <= 60 * 24
        /\ (/\ search.ticker = "none"
            /\ Len(RawResults) <= search.max_results) =>
                \A i \in 1..Len(RawResults) :
                    /\ (RawResults[i].date.kind = "iso"
                        /\ RawResults[i].date.age = 59 * 24)
                            => \E j \in 1..Len(found.items) :
                                    found.items[j] = RawResults[i]
                    /\ (RawResults[i].date.kind = "iso"
                        /\ RawResults[i].date.age = 61 * 24)
                            => \A j \in 1..Len(found.items) :
                                    found.items[j] # RawResults[i]

\* C21: in the composite result of a successful aggregating run, total_rounds
\* is the number of bull-then-bear rounds the run executed.
C21_TotalRoundsIsExecutedRounds ==
    (entry = "aggregate" /\ response.kind = "composite") =>
        /\ Count("bull_analysis") = Count("bear_analysis")
        /\ response.total_rounds = Count("bear_analysis")

\* the handler of connection c reads a message of this type in this step,
\* on a connection whose client is still there
Reads(c, type) ==
    /\ sockets[c].pc = "receiving"
    /\ sockets[c].live
    /\ sockets[c].inbox # << >>
    /\ Head(sockets[c].inbox).type = type
    /\ sockets'[c].inbox = Tail(sockets[c].inbox)

\* the messages connection c receives in this step
Gets(c) ==
    SubSeq(sockets'[c].received, Len(sockets[c].received) + 1,
           Len(sockets'[c].received))

\* C22: on a duplex channel every ping read is answered with exactly one
\* pong, every start message with a non-empty ticker begins exactly one run,
\* and a stop message read is answered with one stopped message, after which
\* the handler reads no further message.
C22_PingStartStop ==
    [][\A c \in Connections :
        /\ Reads(c, "ping") => Gets(c) = <<ServerMessage("pong", c)>>
        /\ (Reads(c, "start") /\ Head(sockets[c].inbox).ticker # "")
                => sockets'[c].pc = "running"
        /\ Reads(c, "stop") =>
                /\ Gets(c) = <<ServerMessage("stopped", c)>>
                /\ sockets'[c].pc = "returned"
        /\ sockets[c].pc = "returned" => sockets'[c].inbox = sockets[c].inbox
      ]_vars

\* connection c is open and registered in the connection table
Registered(c) ==
    /\ sockets[c].live
    /\ active_connections[sockets[c].session_id] = c

\* C23: every message a connection receives was sent by the handler of that
\* connection, also when two connections share a session_id, and the handler
\* of one connection returning leaves every other registered live connection
\* registered.
C23_RunsAreIsolated ==
    /\ [](\A c \in Connections :
            \A i \in 1..Len(sockets[c].received) : sockets[c].received[i].by = c)
    /\ [][\A b \in Connections : \A c \in Connections \ {b} :
            (/\ sockets[b].pc # "returned"
             /\ sockets'[b].pc = "returned"
             /\ Registered(c))
                => active_connections'[sockets[c].session_id] = c]_vars

\* C24: after a send of a run failed on a closed connection, the remaining
\* events of that run are delivered to no connection of that session_id, and
\* each step of the run still consumes one of its remaining events.
C24_NoDeliveryAfterFailedSend ==
    [][\A c \in Connections :
        (/\ sockets[c].pc = "running"
         /\ sockets[c].failed
         /\ sockets'[c].left # sockets[c].left \/ sockets'[c].pc # "running")
            => /\ \A d \in Connections :
                    sockets[d].session_id = sockets[c].session_id
                        => sockets'[d].received = sockets[d].received
               /\ sockets'[c].left < sockets[c].left
                    \/ sockets'[c].pc = "receiving"
      ]_vars

\* the symbols listed in an aggregate
Listed(aggregate) ==
    {aggregate.tickers[i].symbol : i \in 1..Len(aggregate.tickers)}

\* C25: the aggregate of a completed bulk fetch lists exactly the symbols
\* whose fetch returned a quote, each once - a symbol whose fetch raised or
\* returned no data is omitted - the caller always gets an aggregate, and
\* every aggregate's count is the number of its ticker entries.
C25_FailedSymbolsOmitted ==
    /\ fetched.by # 0 =>
        LET aggregate == callers[fetched.by].result
        IN  /\ callers[fetched.by].pc = "done"
            /\ aggregate # NoAggregate
            /\ Listed(aggregate) =
                    {symbol \in nifty_50_symbols : fetched.outcomes[symbol] = "quote"}
            /\ Cardinality(Listed(aggregate)) = Len(aggregate.tickers)
            /\ callers[fetched.by].kind = "cache" => _cache \in {aggregate, NoAggregate}
                                                     /\ refreshed = aggregate
    /\ \A c \in Callers :
        callers[c].pc = "done" =>
            callers[c].result.count = Len(callers[c].result.tickers)

\* a cache refresh in which one symbol's fetch raised, another returned no
\* data or raised, or a quote came back next to a failure
C25_Witness ==
    /\ fetched.by # 0
    /\ callers[fetched.by].kind = "cache"
    /\ \E a \in nifty_50_symbols, b \in nifty_50_symbols :
        /\ fetched.outcomes[a] = "quote"
        /\ fetched.outcomes[b] = "raises"
    /\ callers[fetched.by].result.count = MaxSymbols - 1

\* left is an initial part of right
IsPrefix(left, right) ==
    /\ Len(left) <= Len(right)
    /\ SubSeq(right, 1, Len(left)) = left

\* C26: every step leaves the existing entries of the history log unchanged
\* and in place, and when a run is complete the log holds, for each executed
\* round r in increasing order, the bull entry of round r followed by the
\* bear entry of round r, and then one moderator entry, which is the last.
C26_HistoryOnlyGrows ==
    /\ [][IsPrefix(state.debate_history, state'.debate_history)]_vars
    /\ [](state.phase = "complete" =>
            LET h == state.debate_history
                rounds == Count("bear_analysis")
            IN  /\ Count("bull_analysis") = rounds
                /\ Len(h) = 2 * rounds + 1
                /\ \A r \in 1..rounds :
                    /\ h[2 * r - 1].role = "bull" /\ h[2 * r - 1].round = r
                    /\ h[2 * r].role = "bear" /\ h[2 * r].round = r
                /\ h[Len(h)].role = "moderator"
                /\ h[Len(h)].content = state.moderator_analysis)

\* a complete run of two rounds
C26_Witness ==
    /\ state.phase = "complete"
    /\ Count("bear_analysis") = 2
    /\ Len(state.debate_history) = 5

\* C27: the outgoing event queue is append-only: every step leaves the
\* events already in stream_updates in place, and the queue of a complete
\* run's state holds every event the run produced, in production order.
C27_StreamUpdatesAppendOnly ==
    /\ [][IsPrefix(state.stream_updates, state'.stream_updates)]_vars
    /\ [](state.phase = "complete" => state.stream_updates = produced)

\* C28: once the phase of a run is complete or error, no node of the graph
\* executes in that run any more.
C28_NoNodeAfterTerminalPhase ==
    [][state.phase \in {"complete", "error"} => executed' = executed]_vars

\* the analyses a persona produced in a round, taken from its agent_response
\* events
ProducedIn(agent, round) ==
    {produced[i].analysis : i \in {j \in 1..Len(produced) :
        /\ produced[j].type = "agent_response"
        /\ produced[j].agent = agent
        /\ produced[j].round_number = round}}

\* C29: the bull invocation of round 1 receives no opposing analysis, the
\* bull invocation of a round r > 1 receives the bear analysis produced in
\* round r - 1, and the bear invocation of round r receives the bull
\* analysis produced in round r.
C29_OpposingAnalysis ==
    \A i \in 1..Len(executed) :
        LET e == executed[i]
        IN  /\ (e.name = "bull_analysis" /\ e.round = 1) => e.opposing = NoAnalysis
            /\ (e.name = "bull_analysis" /\ e.round > 1) =>
                    ProducedIn("bear", e.round - 1) = {e.opposing}
            /\ e.name = "bear_analysis" =>
                    ProducedIn("bull", e.round) = {e.opposing}

\* a second-round bull invocation and a second-round bear invocation
C29_Witness ==
    /\ \E i \in 1..Len(executed) :
        /\ executed[i].name = "bull_analysis"
        /\ executed[i].round = 2
        /\ executed[i].opposing # NoAnalysis
    /\ \E i \in 1..Len(executed) :
        /\ executed[i].name = "bear_analysis"
        /\ executed[i].round = 2

\* C30: in the events of a complete run data_fetched is the first, every
\* agent_response directly follows the agent_start of the same persona and
\* round, the bull events of a round precede the bear events of that round,
\* and the last three events are the moderator's agent_start, its
\* agent_response and complete.
C30_EventOrder ==
    state.phase = "complete" =>
        LET n == Len(produced)
        IN  /\ n >= 4
            /\ produced[1].type = "data_fetched"
            /\ \A i \in 1..n :
                produced[i].type = "agent_response" =>
                    /\ i > 1
                    /\ produced[i - 1].type = "agent_start"
                    /\ produced[i - 1].agent = produced[i].agent
                    /\ produced[i - 1].round_number = produced[i].round_number
            /\ \A i \in 1..n, j \in 1..n :
                (/\ produced[i].agent = "bull"
                 /\ produced[j].agent = "bear"
                 /\ produced[i].round_number = produced[j].round_number) => i < j
            /\ produced[n - 2].type = "agent_start"
            /\ produced[n - 2].agent = "moderator"
            /\ produced[n - 1].type = "agent_response"
            /\ produced[n - 1].agent = "moderator"
            /\ produced[n].type = "complete"

\* a complete run of two rounds, with round_complete events in between
C30_Witness ==
    /\ state.phase = "complete"
    /\ Types(produced, {"round_complete"}) = 2
    /\ Types(produced, {"agent_response"}) = 5

\* C31: for a completion whose JSON object is well-formed but has no
\* confidence_score, the bull and bear parsers return the fallback analysis:
\* one synthetic argument of confidence 0.6 and confidence_score 0.6.
C31_MissingScoreFallsBack ==
    (/\ parsed.exc # "pending"
     /\ raw.agent \in {"bull", "bear"}
     /\ find(raw.text, "{") # -1
     /\ rfind(raw.text, "}") + 1 > find(raw.text, "{")
     /\ raw.doc.valid
     /\ raw.doc.confidence_score = "absent") =>
        /\ parsed.exc = "none"
        /\ parsed.analysis =
                FallbackAnalysis(raw.agent, raw.text, raw.sources, clock)
        /\ parsed.analysis.confidence_score = 60
        /\ Len(parsed.analysis.arguments) = 1
        /\ parsed.analysis.arguments[1].point = "See detailed analysis"

\* item i of the news items is among the first 3, has a url and a source
\* name, and no earlier item with a url has the same source name
Citable(i) ==
    LET items == cited.news_items
    IN  /\ i <= 3
        /\ items[i].url # ""
        /\ items[i].source # ""
        /\ \A j \in 1..(i - 1) :
                items[j].url = "" \/ items[j].source # items[i].source

Passes(item) ==
    /\ _is_recent_news(item.date)
    /\ search.ticker # "none" => _is_relevant_news(item)

\* C33: the result of search_news is a subsequence of the raw results in
\* their order, every item of it passes the recency filter and, when a ticker
\* is given, the relevance filter, and it is cut to the requested count after
\* filtering: it holds the first max_results passing items.
C33_FilterThenTruncate ==
    found.done =>
        LET result == found.items
            passing == {i \in 1..Len(RawResults) : Passes(RawResults[i])}
        IN  /\ Len(result) <= search.max_results
            /\ \E f \in [1..Len(result) -> 1..Len(RawResults)] :
                /\ \A k \in 1..Len(result) : result[k] = RawResults[f[k]]
                /\ \A k \in 1..Len(result), l \in 1..Len(result) :
                        k < l => f[k] < f[l]
                /\ \A k \in 1..Len(result) :
                        Cardinality({i \in passing : i <= f[k]}) = k
            /\ \A k \in 1..Len(result) : Passes(result[k])
            /\ Len(result) = Min(search.max_results, Cardinality(passing))

\* one item was asked for, with a ticker: the first raw result is recent but
\* not relevant, the second passes both filters and is the result
C33_Witness ==
    /\ found.done
    /\ search.max_results = 1
    /\ search.ticker # "none"
    /\ Len(RawResults) = 2
    /\ RecentItem(RawResults[1]) /\ ~RawResults[1].relevant
    /\ found.items = <<RawResults[2]>>

\* C34: a persona node starts only while the phase tag names it: the bull
\* node with phase bull_analyzing, the bear node with phase bear_analyzing,
\* the moderator node with phase moderating.
C34_PhaseNamesNode ==
    /\ node = "bull_analysis" => state.phase = "bull_analyzing"
    /\ node = "bear_analysis" => state.phase = "bear_analyzing"
    /\ node = "moderator" => state.phase = "moderating"

\* C35: the verdict of a composite result is the recommendation of the
\* moderator analysis and one of the five recommendation labels; it is never
\* HOLD.
C35_VerdictIsRecommendation ==
    response.kind = "composite" =>
        /\ response.verdict = state.moderator_analysis.recommendation
        /\ response.verdict = response.moderator_analysis.recommendation
        /\ response.verdict \in {"LOOKS BULLISH", "LEANS BULLISH", "MIXED SIGNALS",
                                 "LEANS BEARISH", "LOOKS BEARISH"}
        /\ response.verdict # "HOLD"

\* a composite result whose moderator completion was a JSON object without
\* recommendation
C35_Witness ==
    /\ response.kind = "composite"
    /\ response.moderator_analysis.summary = <<"json">>
    /\ response.verdict = "MIXED SIGNALS"

\* C36: once the handler of a connection has returned, the connection table
\* holds no entry for that connection under its session_id.
C36_ReturnedIsUnregistered ==
    \A c \in Connections :
        sockets[c].pc = "returned" =>
            active_connections[sockets[c].session_id] # c

\* C37: on one channel a run is in progress only between its start message
\* and its closing message: while the run executes no message of the channel
\* is read, and the run ends with the handler sending complete or error and
\* going back to reading.
C37_OneRunAtATime ==
    [][\A c \in Connections :
        sockets[c].pc = "running" =>
            /\ IsPrefix(sockets[c].inbox, sockets'[c].inbox)
            /\ sockets'[c].pc \in {"running", "receiving"}
            /\ sockets'[c].left <= sockets[c].left
            /\ (sockets'[c].pc = "receiving" /\ Registered(c)) =>
                    \/ Gets(c) = <<ServerMessage("complete", c)>>
                    \/ Gets(c) = <<ServerMessage("error", c)>>
      ]_vars

\* a ping waits unread in the channel while the run of that channel executes
C37_Witness ==
    \E c \in Connections :
        /\ sockets[c].pc = "running"
        /\ sockets[c].live
        /\ sockets[c].received = <<ServerMessage("started", c)>>
        /\ Len(sockets[c].inbox) = 1
        /\ sockets[c].inbox[1].type = "ping"

====
